---- MODULE Spec2Model ----
(***************************************************************************)
(* Model of the Outray tunnel client (src/src/client.ts).                  *)
(*                                                                         *)
(* The client object (class Client) is the state: the current-channel      *)
(* reference `ws`, the `closed` flag, the registry `tcpConnections`, and   *)
(* the position of the supervisor loop of connect().  Channels, local      *)
(* stream sockets, datagram sockets and in-flight requests are objects the *)
(* client creates; each one is a numbered instance.  Every callback the    *)
(* client registers (ws.on(...), localSocket.on(...), socket.on(...),      *)
(* setTimeout) is one action; the transport (the `ws` library), the local  *)
(* services and the relay are the environment that fires them.             *)
(*                                                                         *)
(* Transport facts used (Node `ws`, `net`, `dgram`):                       *)
(*  - a channel that fails while connecting, or is closed by ws.close()    *)
(*    while connecting, emits 'error' and then 'close' in the same tick;   *)
(*  - a channel error after 'open' emits 'error' and starts the closing    *)
(*    handshake: 'close' follows later, after an unbounded delay;          *)
(*  - after ws.close() on an open channel, inbound messages are still      *)
(*    delivered until the 'close' event;                                   *)
(*  - ws.send on a CONNECTING channel throws; on a CLOSING channel the     *)
(*    frame is dropped (the callback, if any, gets an error);              *)
(*  - a net.Socket emits 'close' in the tick of its destruction; a dgram   *)
(*    socket emits 'close' in the tick of socket.close().                  *)
(***************************************************************************)
EXTENDS Integers, Sequences, FiniteSets, TLC

\* ---- bounds of the model ------------------------------------------------
MaxChannels == 2      \* channels one run of connect() may create
MaxAttempts == 6      \* the same, in the supervisor-only specification
MaxFrames == 3        \* inbound bridge frames the relay sends in one run
MaxSock == 2          \* local stream sockets created in one run
MaxUdp == 1           \* datagram exchanges in one run
MaxReq == 1           \* http requests in one run

\* ---- program constants --------------------------------------------------
Floor == 1000         \* let backoff = 1000
Ceiling == 30000      \* const maxBackoff = 30000

\* Status codes of the local service: a success and a non-2xx one.
UpstreamCodes == {200, 404}

ConnIds == {"c1"}
Payloads == {"x", "y"}
Channels == 1..(IF MaxAttempts > MaxChannels THEN MaxAttempts ELSE MaxChannels)
Socks == 1..MaxSock
Udps == 1..MaxUdp
\* Requests in one run of the handler-only specification: one more, so that a
\* request comes after one whose handler threw.
MaxHandlerReq == MaxReq + 1
Reqs == 1..MaxHandlerReq

\* The configurations of the constructor that the request dispatch tells apart:
\* a handler; no handler, port > 0 and http; no handler and tcp; port 0.
Configs ==
    { [onRequest |-> TRUE, port |-> 3000, protocol |-> "http"],
      [onRequest |-> FALSE, port |-> 3000, protocol |-> "http"],
      [onRequest |-> FALSE, port |-> 3000, protocol |-> "tcp"],
      [onRequest |-> FALSE, port |-> 0, protocol |-> "http"] }

VARIABLES
    cfg,            \* the constructor's options (immutable)
    supPc,          \* position of connect(): "idle","loop","await","sleep","done"
    backoff,        \* local variable backoff of connect()
    closed,         \* this.closed
    ws,             \* this.ws: 0 is null, else the channel it references
    nch,            \* number of channels created so far (WebSocket instances)
    chan,           \* the WebSocket instances, with the promise of their connectOnce
    tcpConnections, \* this.tcpConnections: connection id -> socket (0: no entry)
    sock,           \* the net.Socket instances created by handleTCPConnection
    udp,            \* the dgram sockets created by handleUDPData
    req,            \* the requests handleRequest is working on
    lastSent,       \* the latest call of ws.send
    nframes,        \* inbound bridge frames received so far
    closeCalled     \* close() has been called at least once

vars == <<cfg, supPc, backoff, closed, ws, nch, chan, tcpConnections, sock, udp,
          req, lastSent, nframes, closeCalled>>

tcpVars == <<tcpConnections, sock>>

\* hs: the open_tunnel frames sent on the channel; bad, logged: the malformed
\* frames handleMessage got on the channel, and the logger.error calls it made
\* for them; reports, wait: the safeOnError calls of connect() for the attempt
\* that created the channel, and the sleep that followed it (0: none).
NoChan == [st |-> "none", promise |-> "pending", opened |-> FALSE,
           erred |-> FALSE, conns |-> {}, hs |-> 0, bad |-> 0, logged |-> 0,
           reports |-> 0, wait |-> 0]
\* how: what ended the socket ("close", "error", "destroyed"); reports: the
\* safeOnError calls of its handlers; missed: the tcp_data frames with its id
\* that arrived after it had ended and before a later socket took the id.
NoSock == [st |-> "none", conn |-> "-", ch |-> 0, written |-> <<>>,
           expect |-> <<>>, post |-> FALSE, how |-> "-", reports |-> 0,
           missed |-> 0]
\* closes: the socket.close() calls made on the socket.
NoUdp == [st |-> "none", bound |-> FALSE, timer |-> FALSE, how |-> "-",
          resp |-> 0, ch |-> 0, post |-> FALSE, closes |-> 0]
\* path: the branch handleRequest took; first: the first event of the proxy
\* call; reports: the safeOnError calls of handleRequest's catch block for the
\* request; cb: how the error callback ended ("returned", "threw").
NoReq == [st |-> "none", path |-> "-", call |-> "-", first |-> "-",
          status |-> 0, resp |-> 0, ch |-> 0, ready |-> "-", reports |-> 0,
          cb |-> "-"]
NoFrame == [kind |-> "-", id |-> "-", ch |-> 0, st |-> "-", origin |-> 0,
            post |-> FALSE]

Min(a, b) == IF a < b THEN a ELSE b

\* Promise settlement: only the first resolve/reject of a promise counts.
Resolve(p) == IF p = "pending" THEN "resolved" ELSE p
Reject(p) == IF p = "pending" THEN "rejected" ELSE p

Init ==
    /\ cfg \in Configs
    /\ supPc = "idle"
    /\ backoff = Floor
    /\ closed = FALSE
    /\ ws = 0
    /\ nch = 0
    /\ chan = [i \in Channels |-> NoChan]
    /\ tcpConnections = [c \in ConnIds |-> 0]
    /\ sock = [s \in Socks |-> NoSock]
    /\ udp = [p \in Udps |-> NoUdp]
    /\ req = [r \in Reqs |-> NoReq]
    /\ lastSent = NoFrame
    /\ nframes = 0
    /\ closeCalled = FALSE

\* ---- ws.send ------------------------------------------------------------
\* One call of send on channel i: the frame, the channel it was handed to,
\* that channel's readyState at the call, the channel the causing frame came
\* from, and whether close() had been called before.
Frame(kind, id, i, origin) ==
    [kind |-> kind, id |-> id, ch |-> i, st |-> chan[i].st, origin |-> origin,
     post |-> closeCalled]

\* The guard of every bridge send: if (this.ws && !this.closed)
CanSend == ws # 0 /\ ~closed

\* ws.send puts the frame on the wire only on an OPEN channel (it throws on a
\* CONNECTING one and drops the frame on a CLOSING one).
OnWire(i) == chan[i].st = "open"

\* ---- Connection Supervisor: connect() -------------------------------------
Connect ==
    /\ supPc = "idle"
    /\ supPc' = "loop"
    /\ backoff' = Floor
    /\ UNCHANGED <<cfg, closed, ws, nch, chan, tcpVars, udp, req, lastSent,
                   nframes, closeCalled>>

\* connectOnce(): new WebSocket; this.ws = ws; this.closed = false.
ConnectOnce ==
    /\ nch' = nch + 1
    /\ chan' = [chan EXCEPT ![nch + 1] = [NoChan EXCEPT !.st = "connecting"]]
    /\ ws' = nch + 1
    /\ closed' = FALSE

\* A supervisor loop that never looks at the closed flag: while (true)
LoopNeverExits == FALSE

\* The loop condition of connect(): while (!this.closed)
LoopExits == closed

\* while (!this.closed) { await this.connectOnce() ... }, for at most `limit`
\* channels.
LoopStepUpTo(limit) ==
    /\ supPc = "loop"
    /\ IF LoopExits
       THEN /\ supPc' = "done"
            /\ UNCHANGED <<closed, ws, nch, chan>>
       ELSE /\ nch < limit
            /\ ConnectOnce
            /\ supPc' = "await"
    /\ UNCHANGED <<cfg, backoff, tcpVars, udp, req, lastSent, nframes,
                   closeCalled>>

LoopStep == LoopStepUpTo(MaxChannels)
SupLoopStep == LoopStepUpTo(MaxAttempts)

\* The await of connect() resumes: resolved -> backoff = 1000; rejected ->
\* catch block: safeOnError, then sleep(backoff).
Resume ==
    /\ supPc = "await"
    /\ chan[nch].promise # "pending"
    /\ IF chan[nch].promise = "resolved"
       THEN /\ supPc' = "loop"
            /\ backoff' = Floor
            /\ chan' = chan
       ELSE /\ supPc' = "sleep"
            /\ backoff' = backoff
            /\ chan' = [chan EXCEPT ![nch].reports = @ + 1, ![nch].wait = backoff]
    /\ UNCHANGED <<cfg, closed, ws, nch, tcpVars, udp, req, lastSent, nframes,
                   closeCalled>>

\* A backoff that doubles without a ceiling.
BackoffUncapped == backoff * 2

\* backoff = Math.min(backoff * 2, maxBackoff)
BackoffAfterSleep == Min(backoff * 2, Ceiling)

\* sleep(backoff) is over.
SleepDone ==
    /\ supPc = "sleep"
    /\ backoff' = BackoffAfterSleep
    /\ supPc' = "loop"
    /\ UNCHANGED <<cfg, closed, ws, nch, chan, tcpVars, udp, req, lastSent,
                   nframes, closeCalled>>

\* ---- Session: the handlers connectOnce registers on the channel -----------
\* An 'open' handler that sends the handshake on the first channel only.
HandshakesFirstChannelOnly(i) == IF i = 1 THEN chan[i].hs + 1 ELSE chan[i].hs

\* The open_tunnel frames sent on channel i once its 'open' handler has run.
HandshakesAfterOpen(i) == chan[i].hs + 1

\* ws.on("open"): send the handshake (the frame's id stands for the protocol
\* mode it carries), register the resolving close handler.
WsOpen(i) ==
    /\ chan[i].st = "connecting"
    /\ chan' = [chan EXCEPT ![i].st = "open", ![i].opened = TRUE,
                            ![i].hs = HandshakesAfterOpen(i)]
    /\ lastSent' = [Frame("open_tunnel", cfg.protocol, i, i) EXCEPT !.st = "open"]
    /\ UNCHANGED <<cfg, supPc, backoff, closed, ws, nch, tcpVars, udp, req,
                   nframes, closeCalled>>

\* What the 'close' handlers do to this.ws: the outer handler sets it to null.
WsRefAfterClose(i) == 0

\* An 'error' handler that leaves the promise alone.
PromiseKeptOnError(i) == chan[i].promise

\* What the 'error' handler does to the promise: reject(err).
PromiseAfterError(i) == Reject(chan[i].promise)

\* What the 'close' handlers do to a promise in state p: resolve(), by the
\* handler that 'open' registered.
PromiseAfterClose(i, p) == IF chan[i].opened THEN Resolve(p) ELSE p

\* ws.on("error") then ws.on("close") in one tick: the connection attempt
\* failed, or close() aborted it.
WsConnectFail(i) ==
    /\ chan[i].st \in {"connecting", "aborting"}
    /\ chan' = [chan EXCEPT ![i].st = "closed", ![i].erred = TRUE,
                            ![i].promise = PromiseAfterClose(i, PromiseAfterError(i))]
    /\ ws' = WsRefAfterClose(i)
    /\ UNCHANGED <<cfg, supPc, backoff, closed, nch, tcpVars, udp, req,
                   lastSent, nframes, closeCalled>>

\* ws.on("error") on an open channel: reject(err); the channel starts closing.
WsError(i) ==
    /\ chan[i].st = "open"
    /\ chan' = [chan EXCEPT ![i].st = "failing", ![i].erred = TRUE,
                            ![i].promise = PromiseAfterError(i)]
    /\ UNCHANGED <<cfg, supPc, backoff, closed, ws, nch, tcpVars, udp, req,
                   lastSent, nframes, closeCalled>>

\* The registry after a channel's 'close' handlers: they do not touch it.
RegistryAfterWsClose(i) == tcpConnections

\* ws.on("close") of a channel that had opened: this.ws = null, resolve().
WsClose(i) ==
    /\ chan[i].st \in {"open", "closing", "failing"}
    /\ chan' = [chan EXCEPT ![i].st = "closed", ![i].promise =
                               PromiseAfterClose(i, chan[i].promise)]
    /\ ws' = WsRefAfterClose(i)
    /\ tcpConnections' = RegistryAfterWsClose(i)
    /\ UNCHANGED <<cfg, supPc, backoff, closed, nch, sock, udp, req, lastSent,
                   nframes, closeCalled>>

\* ---- close() --------------------------------------------------------------
\* ws.close() on the referenced channel.
AfterWsClose(st) ==
    CASE st = "connecting" -> "aborting"
      [] st = "open" -> "closing"
      [] OTHER -> st

\* The sockets in this.tcpConnections.values()
Registered == {tcpConnections[c] : c \in ConnIds} \ {0}

Close ==
    /\ closed' = TRUE
    /\ closeCalled' = TRUE
    /\ sock' = [s \in Socks |->
                 IF s \in Registered /\ sock[s].st = "open"
                 THEN [sock[s] EXCEPT !.st = "closed", !.how = "destroyed"]
                 ELSE sock[s]]
    /\ tcpConnections' = [c \in ConnIds |-> 0]
    /\ IF ws # 0
       THEN chan' = [chan EXCEPT ![ws].st = AfterWsClose(chan[ws].st)]
       ELSE chan' = chan
    /\ ws' = 0
    /\ UNCHANGED <<cfg, supPc, backoff, nch, udp, req, lastSent, nframes>>

\* ---- handleMessage: a frame arrives on channel i --------------------------
\* The channel emits 'message': it is open, or closing after ws.close().
Delivering(i) == chan[i].st \in {"open", "closing"}

Dispatch(i) == Delivering(i) /\ nframes < MaxFrames /\ nframes' = nframes + 1

\* The malformed frames: text JSON.parse rejects, and an object whose type is
\* none of the cases of the switch.
MalformedKinds == {"unparsable", "unknown"}

\* The logger.error calls of handleMessage for a malformed frame: the catch
\* block logs what JSON.parse threw; the switch has no default case.
LoggedAfterMalformed(i, k) ==
    IF k = "unparsable" THEN chan[i].logged + 1 ELSE chan[i].logged

\* handleMessage(data) for a malformed frame.
RecvMalformed(i, k) ==
    /\ Dispatch(i)
    /\ chan' = [chan EXCEPT ![i].bad = @ + 1,
                            ![i].logged = LoggedAfterMalformed(i, k)]
    /\ UNCHANGED <<cfg, supPc, backoff, closed, ws, nch, tcpVars, udp, req,
                   lastSent, closeCalled>>

\* ---- Stream Bridge ----------------------------------------------------------
FreshSock == Cardinality({s \in Socks : sock[s].st # "none"}) + 1

\* The socket created by the latest tcp_connection frame with id c (0: none).
Latest(c) ==
    LET ss == {s \in Socks : sock[s].conn = c}
    IN IF ss = {} THEN 0 ELSE CHOOSE s \in ss : \A t \in ss : t <= s

\* handleTCPConnection(connId); the relay's ids are unique per channel.
RecvTcpConnection(i, c) ==
    /\ Dispatch(i)
    /\ c \notin chan[i].conns
    /\ FreshSock <= MaxSock
    /\ sock' = [sock EXCEPT ![FreshSock] =
                  [NoSock EXCEPT !.st = "open", !.conn = c, !.ch = i,
                                 !.post = closeCalled]]
    /\ tcpConnections' = [tcpConnections EXCEPT ![c] = FreshSock]
    /\ chan' = [chan EXCEPT ![i].conns = @ \cup {c}]
    /\ UNCHANGED <<cfg, supPc, backoff, closed, ws, nch, udp, req, lastSent,
                   closeCalled>>

\* A handleTCPData that writes to the latest socket created for the id,
\* registered or not.
WrittenToLatest(s, c, d) ==
    IF s = Latest(c) THEN Append(sock[s].written, d) ELSE sock[s].written

\* handleTCPData(connId, dataB64): write to the registered socket, if any.
WrittenAfterData(s, c, d) ==
    IF tcpConnections[c] = s THEN Append(sock[s].written, d) ELSE sock[s].written

RecvTcpData(i, c, d) ==
    /\ Dispatch(i)
    /\ sock' = [s \in Socks |->
                 [sock[s] EXCEPT
                    !.written = WrittenAfterData(s, c, d),
                    !.expect = IF s = Latest(c) /\ sock[s].st = "open"
                               THEN Append(@, d) ELSE @,
                    !.missed = IF s = Latest(c) /\ sock[s].st = "closed"
                               THEN @ + 1 ELSE @]]
    /\ UNCHANGED <<cfg, supPc, backoff, closed, ws, nch, chan, tcpConnections,
                   udp, req, lastSent, closeCalled>>

\* localSocket.on("close"): this.tcpConnections.delete(connId)
SockClose(s) ==
    /\ sock[s].st = "open"
    /\ sock' = [sock EXCEPT ![s].st = "closed", ![s].how = "close"]
    /\ tcpConnections' = [tcpConnections EXCEPT ![sock[s].conn] = 0]
    /\ UNCHANGED <<cfg, supPc, backoff, closed, ws, nch, chan, udp, req,
                   lastSent, nframes, closeCalled>>

\* localSocket.on("error"): safeOnError, destroy, delete (the 'close' event
\* of the destroyed socket follows in the same tick and deletes again).
SockError(s) ==
    /\ sock[s].st = "open"
    /\ sock' = [sock EXCEPT ![s].st = "closed", ![s].how = "error",
                            ![s].reports = @ + 1]
    /\ tcpConnections' = [tcpConnections EXCEPT ![sock[s].conn] = 0]
    /\ UNCHANGED <<cfg, supPc, backoff, closed, ws, nch, chan, udp, req,
                   lastSent, nframes, closeCalled>>

\* localSocket.on("data"): if (this.ws && !this.closed) this.ws.send(tcp_data)
SockData(s) ==
    /\ sock[s].st = "open"
    /\ CanSend
    /\ lastSent' = Frame("tcp_data", sock[s].conn, ws, sock[s].ch)
    /\ UNCHANGED <<cfg, supPc, backoff, closed, ws, nch, chan, tcpVars, udp,
                   req, nframes, closeCalled>>

\* ---- Datagram Bridge --------------------------------------------------------
FreshUdp == Cardinality({p \in Udps : udp[p].st # "none"}) + 1

\* handleUDPData(packet): createSocket; Buffer.from(packet.data) throws when the
\* payload is missing (no handler, no timer, no send: the socket stays as it
\* is); else the handlers and the 5 s timer are set and the payload is sent
\* (send throws on port 0, after the timer was set).
RecvUdpData(i, hasData) ==
    /\ Dispatch(i)
    /\ FreshUdp <= MaxUdp
    /\ udp' = [udp EXCEPT ![FreshUdp] =
                 [NoUdp EXCEPT !.st = "open", !.timer = hasData,
                               !.bound = hasData /\ cfg.port > 0,
                               !.ch = i, !.post = closeCalled]]
    /\ UNCHANGED <<cfg, supPc, backoff, closed, ws, nch, chan, tcpVars, req,
                   lastSent, closeCalled>>

\* A 'message' handler that sends the response and leaves the socket open.
UdpAfterMessageNoClose(p) ==
    [udp[p] EXCEPT !.how = "response",
                   !.resp = IF CanSend /\ OnWire(ws) THEN @ + 1 ELSE @]

\* The socket after the 'message' handler: socket.close(), unless ws.send threw
\* before (CONNECTING channel).
UdpAfterMessage(p) ==
    IF CanSend /\ chan[ws].st = "connecting"
    THEN udp[p]
    ELSE [udp[p] EXCEPT !.st = "closed", !.timer = FALSE, !.how = "response",
                        !.closes = @ + 1,
                        !.resp = IF CanSend /\ OnWire(ws) THEN @ + 1 ELSE @]

\* socket.on("message"): send udp_response if (this.ws && !this.closed), close.
UdpMessage(p) ==
    /\ udp[p].st = "open" /\ udp[p].bound
    /\ udp' = [udp EXCEPT ![p] = UdpAfterMessage(p)]
    /\ lastSent' = IF CanSend THEN Frame("udp_response", p, ws, udp[p].ch)
                   ELSE lastSent
    /\ UNCHANGED <<cfg, supPc, backoff, closed, ws, nch, chan, tcpVars, req,
                   nframes, closeCalled>>

\* socket.on("error"): safeOnError, socket.close().
UdpError(p) ==
    /\ udp[p].st = "open" /\ udp[p].bound
    /\ udp' = [udp EXCEPT ![p].st = "closed", ![p].timer = FALSE,
                          ![p].how = "error", ![p].closes = @ + 1]
    /\ UNCHANGED <<cfg, supPc, backoff, closed, ws, nch, chan, tcpVars, req,
                   lastSent, nframes, closeCalled>>

\* setTimeout(() => socket.close(), 5000); cleared by the 'close' handler.
UdpTimeout(p) ==
    /\ udp[p].st = "open" /\ udp[p].timer
    /\ udp' = [udp EXCEPT ![p].st = "closed", ![p].timer = FALSE,
                          ![p].how = "timeout", ![p].closes = @ + 1]
    /\ UNCHANGED <<cfg, supPc, backoff, closed, ws, nch, chan, tcpVars, req,
                   lastSent, nframes, closeCalled>>

\* ---- HTTP Bridge ------------------------------------------------------------
FreshReq == Cardinality({r \in Reqs : req[r].st # "none"}) + 1

\* sendResponse(resp): rejects when (!this.ws || this.closed), else ws.send
\* with a callback; the request ends "sent" or, through the catch block of
\* handleRequest, "unsent".  `ready` records what the client saw at that moment.
ChannelView ==
    IF ws = 0 THEN "null" ELSE IF closed THEN "closed" ELSE chan[ws].st

SendResponse(q, status) ==
    [q EXCEPT !.status = status,
              !.ready = ChannelView,
              !.st = IF CanSend /\ OnWire(ws) THEN "sent" ELSE "unsent",
              !.resp = IF CanSend /\ OnWire(ws) THEN @ + 1 ELSE @,
              !.reports = IF CanSend /\ OnWire(ws) THEN @ ELSE @ + 1]

FrameOfResponse(r) ==
    IF CanSend THEN Frame("response", r, ws, req[r].ch) ELSE lastSent

\* A dispatch that tries the local proxy before the handler.
PathProxyFirst ==
    IF cfg.port > 0 /\ cfg.protocol = "http" THEN "proxy"
    ELSE IF cfg.onRequest THEN "handler"
    ELSE "none"

\* The path handleRequest takes.
Path == IF cfg.onRequest THEN "handler"
        ELSE IF cfg.port > 0 /\ cfg.protocol = "http" THEN "proxy"
        ELSE "none"

\* handleRequest(req) up to its first suspension, for at most `limit`
\* requests.
RecvRequestUpTo(i, limit) ==
    /\ Dispatch(i)
    /\ FreshReq <= limit
    /\ LET r == FreshReq
           q == [NoReq EXCEPT !.ch = i]
       IN CASE Path = "handler" ->
                 /\ req' = [req EXCEPT ![r] = [q EXCEPT !.st = "handler",
                                                        !.path = "handler"]]
                 /\ lastSent' = lastSent
            [] Path = "proxy" ->
                 /\ req' = [req EXCEPT ![r] = [q EXCEPT !.st = "proxy",
                                                        !.path = "proxy",
                                                        !.call = "inflight"]]
                 /\ lastSent' = lastSent
            [] OTHER ->
                 /\ req' = [req EXCEPT ![r] =
                              SendResponse([q EXCEPT !.path = "none"], 501)]
                 /\ lastSent' = IF CanSend THEN Frame("response", r, ws, i)
                                ELSE lastSent
    /\ UNCHANGED <<cfg, supPc, backoff, closed, ws, nch, chan, tcpVars, udp,
                   closeCalled>>

RecvRequest(i) == RecvRequestUpTo(i, MaxReq)
RecvHandlerRequest(i) == RecvRequestUpTo(i, MaxHandlerReq)

\* The user's handler returns (or its promise resolves): sendResponse.
HandlerReturn(r) ==
    /\ req[r].st = "handler"
    /\ req' = [req EXCEPT ![r] = SendResponse(req[r], 200)]
    /\ lastSent' = FrameOfResponse(r)
    /\ UNCHANGED <<cfg, supPc, backoff, closed, ws, nch, chan, tcpVars, udp,
                   nframes, closeCalled>>

\* A catch block that answers a handler exception with a status 500 response.
HandlerThrowSends500(r) ==
    /\ req[r].st = "handler"
    /\ req' = [req EXCEPT ![r] = [SendResponse(req[r], 500) EXCEPT !.st = "threw"]]
    /\ lastSent' = FrameOfResponse(r)
    /\ UNCHANGED <<cfg, supPc, backoff, closed, ws, nch, chan, tcpVars, udp,
                   nframes, closeCalled>>

\* A catch block that swallows the handler's exception without reporting it.
HandlerThrowUnreported(r) ==
    /\ req[r].st = "handler"
    /\ req' = [req EXCEPT ![r].st = "threw"]
    /\ UNCHANGED <<cfg, supPc, backoff, closed, ws, nch, chan, tcpVars, udp,
                   lastSent, nframes, closeCalled>>

\* safeOnError(error): safeCallback runs the error callback in a try block
\* and only logs what it throws.
AfterSafeOnError(q, cbThrows) ==
    [q EXCEPT !.reports = @ + 1,
              !.cb = IF cbThrows THEN "threw" ELSE "returned"]

\* The user's handler throws (or its promise rejects): catch, safeOnError.
HandlerThrow(r) ==
    /\ req[r].st = "handler"
    /\ \E cbThrows \in BOOLEAN :
         req' = [req EXCEPT ![r] = AfterSafeOnError([req[r] EXCEPT !.st = "threw"],
                                                    cbThrows)]
    /\ UNCHANGED <<cfg, supPc, backoff, closed, ws, nch, chan, tcpVars, udp,
                   lastSent, nframes, closeCalled>>

\* proxyHTTP: the events of the upstream call; the promise takes the first.
\* proxyRes.on("end"): resolve with the upstream's own status.
ProxyEnd(r) ==
    /\ req[r].call = "inflight"
    /\ \E code \in UpstreamCodes :
         req' = [req EXCEPT ![r] = [SendResponse(req[r], code) EXCEPT
                                      !.call = "over", !.first = "end"]]
    /\ lastSent' = FrameOfResponse(r)
    /\ UNCHANGED <<cfg, supPc, backoff, closed, ws, nch, chan, tcpVars, udp,
                   nframes, closeCalled>>

\* proxyReq.on("timeout"): proxyReq.destroy(); resolve 504.
ProxyTimeout(r) ==
    /\ req[r].call = "inflight"
    /\ req' = [req EXCEPT ![r] = [SendResponse(req[r], 504) EXCEPT
                                    !.call = "aborted", !.first = "timeout"]]
    /\ lastSent' = FrameOfResponse(r)
    /\ UNCHANGED <<cfg, supPc, backoff, closed, ws, nch, chan, tcpVars, udp,
                   nframes, closeCalled>>

\* An 'error' handler whose 502 is sent whether or not the call is settled.
ProxyErrorAnswersAgain(r) ==
    /\ req[r].call \in {"inflight", "aborted"}
    /\ req' = [req EXCEPT ![r] = [SendResponse(req[r], 502) EXCEPT
                                    !.call = "over",
                                    !.first = IF @ = "-" THEN "error" ELSE @]]
    /\ lastSent' = FrameOfResponse(r)
    /\ UNCHANGED <<cfg, supPc, backoff, closed, ws, nch, chan, tcpVars, udp,
                   nframes, closeCalled>>

\* proxyReq.on("error"): resolve 502; after the timeout (the error the
\* destroy causes) the promise is already resolved.
ProxyError(r) ==
    /\ req[r].call \in {"inflight", "aborted"}
    /\ IF req[r].call = "inflight"
       THEN /\ req' = [req EXCEPT ![r] = [SendResponse(req[r], 502) EXCEPT
                                            !.call = "over", !.first = "error"]]
            /\ lastSent' = FrameOfResponse(r)
       ELSE /\ req' = [req EXCEPT ![r].call = "over"]
            /\ lastSent' = lastSent
    /\ UNCHANGED <<cfg, supPc, backoff, closed, ws, nch, chan, tcpVars, udp,
                   nframes, closeCalled>>

\* ---- the specification ------------------------------------------------------
Next ==
    \/ Connect
    \/ LoopStep
    \/ Resume
    \/ SleepDone
    \/ Close
    \/ \E i \in Channels : WsOpen(i)
    \/ \E i \in Channels : WsConnectFail(i)
    \/ \E i \in Channels : WsError(i)
    \/ \E i \in Channels : WsClose(i)
    \/ \E i \in Channels, k \in MalformedKinds : RecvMalformed(i, k)
    \/ \E i \in Channels, c \in ConnIds : RecvTcpConnection(i, c)
    \/ \E i \in Channels, c \in ConnIds, d \in Payloads : RecvTcpData(i, c, d)
    \/ \E s \in Socks : SockClose(s)
    \/ \E s \in Socks : SockError(s)
    \/ \E s \in Socks : SockData(s)
    \/ \E i \in Channels, hasData \in BOOLEAN : RecvUdpData(i, hasData)
    \/ \E p \in Udps : UdpMessage(p)
    \/ \E p \in Udps : UdpError(p)
    \/ \E p \in Udps : UdpTimeout(p)
    \/ \E i \in Channels : RecvRequest(i)
    \/ \E r \in Reqs : HandlerReturn(r)
    \/ \E r \in Reqs : HandlerThrow(r)
    \/ \E r \in Reqs : ProxyEnd(r)
    \/ \E r \in Reqs : ProxyTimeout(r)
    \/ \E r \in Reqs : ProxyError(r)

Spec == Init /\ [][Next]_vars

\* The bridges read this.ws, this.closed and the channels but never change
\* them, and no bridge reads another bridge's state: a property of the
\* supervisor, the channels and one bridge is decided by the actions of these
\* alone.  The specifications below run the supervisor and the channels with
\* one bridge each (or none, with more reconnect attempts).
SupActions ==
    \/ Connect
    \/ Resume
    \/ SleepDone
    \/ Close
    \/ \E i \in Channels : WsOpen(i)
    \/ \E i \in Channels : WsConnectFail(i)
    \/ \E i \in Channels : WsError(i)
    \/ \E i \in Channels : WsClose(i)

SupNext ==
    \/ SupActions
    \/ SupLoopStep

TcpNext ==
    \/ SupActions
    \/ LoopStep
    \/ \E i \in Channels, k \in MalformedKinds : RecvMalformed(i, k)
    \/ \E i \in Channels, c \in ConnIds : RecvTcpConnection(i, c)
    \/ \E i \in Channels, c \in ConnIds, d \in Payloads : RecvTcpData(i, c, d)
    \/ \E s \in Socks : SockClose(s)
    \/ \E s \in Socks : SockError(s)
    \/ \E s \in Socks : SockData(s)

UdpNext ==
    \/ SupActions
    \/ LoopStep
    \/ \E i \in Channels, hasData \in BOOLEAN : RecvUdpData(i, hasData)
    \/ \E p \in Udps : UdpMessage(p)
    \/ \E p \in Udps : UdpError(p)
    \/ \E p \in Udps : UdpTimeout(p)

HttpNext ==
    \/ SupActions
    \/ LoopStep
    \/ \E i \in Channels : RecvRequest(i)
    \/ \E r \in Reqs : HandlerReturn(r)
    \/ \E r \in Reqs : HandlerThrow(r)
    \/ \E r \in Reqs : ProxyEnd(r)
    \/ \E r \in Reqs : ProxyTimeout(r)
    \/ \E r \in Reqs : ProxyError(r)

\* The requests of a client with a handler: the proxy is never called.
HandlerNext ==
    \/ SupActions
    \/ LoopStep
    \/ \E i \in Channels : RecvHandlerRequest(i)
    \/ \E r \in Reqs : HandlerReturn(r)
    \/ \E r \in Reqs : HandlerThrow(r)

\* The registry and the sockets of the stream bridge: one payload value, and
\* without the local 'data' events, which change neither.
StreamNext ==
    \/ SupActions
    \/ LoopStep
    \/ \E i \in Channels, c \in ConnIds : RecvTcpConnection(i, c)
    \/ \E i \in Channels, c \in ConnIds : RecvTcpData(i, c, "x")
    \/ \E s \in Socks : SockClose(s)
    \/ \E s \in Socks : SockError(s)

\* The supervisor and the stream bridge do not read the configuration (the
\* stream bridge connects to localPort whatever it is): one configuration is
\* run.
SupInit == Init /\ cfg = [onRequest |-> FALSE, port |-> 3000, protocol |-> "http"]

\* The configurations with a handler.
HandlerInit == Init /\ cfg.onRequest

SupSpec == SupInit /\ [][SupNext]_vars
TcpSpec == SupInit /\ [][TcpNext]_vars
UdpSpec == Init /\ [][UdpNext]_vars
HttpSpec == Init /\ [][HttpNext]_vars
HandlerSpec == HandlerInit /\ [][HandlerNext]_vars
StreamSpec == SupInit /\ [][StreamNext]_vars

\* A timer that is set fires: setTimeout(..., 5000) of handleUDPData.
UdpFairSpec == UdpSpec /\ \A p \in Udps : WF_vars(UdpTimeout(p))

\* The scheduling the runtime and the transport guarantee: a settled promise
\* resumes connect(), the backoff timer fires, the loop takes its next step, a
\* connection attempt that does not open fails, and a channel that is closing
\* (after ws.close() or after an error) gets its 'close' event.  Nothing makes
\* the relay close an open channel.
ClosePending(i) == chan[i].st \in {"closing", "failing"} /\ WsClose(i)

\* The supervisor and the channels alone, within MaxChannels channels.
SessionNext ==
    \/ SupActions
    \/ LoopStep

SessionSpec == SupInit /\ [][SessionNext]_vars

SessionFairSpec ==
    /\ SessionSpec
    /\ WF_vars(LoopStep)
    /\ WF_vars(Resume)
    /\ WF_vars(SleepDone)
    /\ \A i \in Channels : WF_vars(WsConnectFail(i))
    /\ \A i \in Channels : WF_vars(ClosePending(i))

\* ==== the claims ===========================================================

\* ---- C1 -------------------------------------------------------------------
Finished(r) == req[r].st \in {"sent", "unsent"}

\* C1, as stated: every request whose handling has run to its end without a
\* handler exception has exactly one response frame with its id on the wire
\* (and no request ever has more than one).
C1_ExactlyOneUnlessThrow ==
    \A r \in Reqs : /\ req[r].resp <= 1
                    /\ Finished(r) => req[r].resp = 1

\* C1, amended: at most one response frame per request is ever emitted; a
\* request whose handler threw, or that is still being handled, has none; and
\* once the handler has returned, the proxy call has ended or the 501 path was
\* taken, exactly one response was emitted if and only if at that moment
\* this.ws designated an open channel and this.closed was unset.
C1_OneResponseIfChannelOpen ==
    \A r \in Reqs :
        /\ req[r].resp <= 1
        /\ req[r].st \in {"none", "handler", "proxy", "threw"} => req[r].resp = 0
        /\ Finished(r) => (req[r].resp = 1 <=> req[r].ready = "open")
        /\ req[r].st = "sent" <=> req[r].resp = 1

\* A request was answered on the proxy path; another one found no channel.
C1_Witness ==
    \E r \in Reqs : req[r].st = "sent" /\ req[r].status = 502 /\ req[r].resp = 1

\* ---- C2 -------------------------------------------------------------------
\* C2: for every datagram exchange at most one udp_response frame is emitted;
\* an exchange ended by the timeout or by a socket error has emitted none, and
\* an exchange that emitted one is closed by that response with its timer
\* cancelled: first response and timeout exclude each other.
C2_AtMostOneUdpResponse ==
    \A p \in Udps :
        /\ udp[p].resp <= 1
        /\ udp[p].how \in {"timeout", "error"} => udp[p].resp = 0
        /\ udp[p].resp = 1 =>
             udp[p].how = "response" /\ udp[p].st = "closed" /\ ~udp[p].timer
        /\ udp[p].st = "closed" => ~udp[p].timer

\* An exchange that emitted its response.
C2_Witness == \E p \in Udps : udp[p].resp = 1 /\ udp[p].st = "closed"

\* ---- C3 -------------------------------------------------------------------
\* C3: every open socket created by a tcp_connection frame with id c has been
\* written exactly the payloads of the tcp_data frames with id c received
\* since, in their order (until a later tcp_connection frame takes the id).
C3_WrittenEqualsReceived ==
    \A s \in Socks : sock[s].st = "open" => sock[s].written = sock[s].expect

\* ---- C4 -------------------------------------------------------------------
\* C4: when an attempt is over and the loop is reached again, the delay is at
\* the floor if the attempt's channel had opened, and otherwise it has not
\* decreased and is at most the ceiling.
C4_BackoffResetAfterOpen ==
    [][ (supPc \in {"await", "sleep"} /\ supPc' = "loop") =>
          IF chan[nch].opened
          THEN backoff' = Floor
          ELSE backoff' >= backoff /\ backoff' <= Ceiling ]_vars

\* ---- C5 -------------------------------------------------------------------
\* C5: no send and no new local socket (stream or datagram) after close().
C5_NothingAfterClose ==
    /\ ~lastSent.post
    /\ \A s \in Socks : ~sock[s].post
    /\ \A p \in Udps : ~udp[p].post

\* ---- C6 -------------------------------------------------------------------
\* C6: once close() has been called the closed flag is set in every later
\* state and no channel is created any more.
C6_ClosedForGood ==
    [][ /\ closeCalled' => closed'
        /\ closeCalled => nch' = nch ]_vars

\* close() was called while a channel was in use, and the loop has ended.
C6_Witness == closeCalled /\ nch >= 2 /\ supPc = "done"

\* ---- C7 -------------------------------------------------------------------
\* C7: after close() the supervisor loop of a running connect() exits.
C7_CloseLeadsToExit == (closeCalled /\ supPc # "idle") ~> (supPc = "done")

\* ---- C8 -------------------------------------------------------------------
\* C8: in the state right after a channel's close event the registry is empty
\* and every socket that was registered is closed.
C8_RegistryClearedOnChannelClose ==
    [][ (\E i \in Channels : chan[i].st # "closed" /\ chan'[i].st = "closed") =>
          /\ \A c \in ConnIds : tcpConnections'[c] = 0
          /\ \A s \in Registered : sock'[s].st = "closed" ]_vars

\* ---- C9 -------------------------------------------------------------------
\* C9: at most one channel is connecting, open or on its way to closed.
Live(i) == chan[i].st \notin {"none", "closed"}

C9_AtMostOneLiveChannel == Cardinality({i \in Channels : Live(i)}) <= 1

C11_MalformedLoggedAndDropped ==
    [][ \A i \in Channels :
          chan'[i].bad > chan[i].bad =>
            /\ chan'[i].logged = chan[i].logged + 1
            /\ chan'[i].st = chan[i].st /\ chan'[i].st \in {"open", "closing"}
            /\ tcpConnections' = tcpConnections /\ closed' = closed /\ ws' = ws
            /\ lastSent' = lastSent
            /\ sock' = sock /\ udp' = udp ]_vars

\* ---- C12 ------------------------------------------------------------------
\* C12: a request whose handler threw has one report through the error
\* callback and no response frame, whether or not the error callback threw
\* too; the step that catches the exception leaves every channel, the channel
\* reference and the closed flag as they were and sends nothing.
C12_HandlerThrowIsolated ==
    [][ \A r \in Reqs :
          req'[r].st = "threw" =>
            /\ req'[r].reports = 1 /\ req'[r].resp = 0
            /\ req'[r].cb \in {"returned", "threw"}
            /\ req[r].st # "threw" =>
                 /\ req[r].st = "handler"
                 /\ chan' = chan /\ ws' = ws /\ closed' = closed
                 /\ lastSent' = lastSent ]_vars

\* A handler threw, the error callback threw too, and a later request of the
\* same channel was answered.
C12_Witness ==
    \E r, t \in Reqs :
        /\ r < t /\ req[r].ch = req[t].ch
        /\ req[r].st = "threw" /\ req[r].cb = "threw"
        /\ req[t].st = "sent" /\ req[t].resp = 1

\* ---- C13 ------------------------------------------------------------------
\* C13: a channel has sent exactly one open_tunnel frame if its open event has
\* happened and none otherwise; the open event's step sends it on that channel,
\* carrying the configured protocol mode, while the channel is open; and every
\* channel that delivers inbound frames, or that a dispatched frame came from,
\* has sent it before.
C13_HandshakeOncePerChannel ==
    [][ \A i \in Channels :
          /\ chan'[i].hs = (IF chan'[i].opened THEN 1 ELSE 0)
          /\ (chan'[i].opened /\ ~chan[i].opened) =>
               lastSent' = [kind |-> "open_tunnel", id |-> cfg.protocol,
                            ch |-> i, st |-> "open", origin |-> i,
                            post |-> closeCalled]
          /\ (nframes' > nframes /\ chan[i].st \in {"open", "closing"}) =>
               chan[i].hs = 1
          /\ ( \/ chan'[i].bad > 0 \/ chan'[i].conns # {}
               \/ \E s \in Socks : sock'[s].ch = i
               \/ \E p \in Udps : udp'[p].ch = i
               \/ \E r \in Reqs : req'[r].ch = i ) => chan'[i].hs = 1 ]_vars

\* The second channel has opened after the first one closed, each has sent its
\* handshake, and frames of both were dispatched.
C13_Witness ==
    /\ chan[1].st = "closed" /\ chan[1].hs = 1
    /\ chan[2].st = "open" /\ chan[2].hs = 1
    /\ chan[1].conns # {} /\ chan[2].conns # {}

\* ---- C14 ------------------------------------------------------------------
\* C14: every request took exactly one path, chosen in this order: the handler
\* if one is configured, and then no proxy call was made; else the proxy if the
\* port is positive and the mode is http; else neither was called and the
\* status is 501.  Only the proxy path makes a proxy call, only the last path
\* answers 501, and a path once taken is never left.
C14_DispatchPriority ==
    [][ \A r \in Reqs :
          /\ req[r].st # "none" => req'[r].path = req[r].path
          /\ req'[r].st # "none" =>
               /\ req'[r].path =
                    (IF cfg.onRequest THEN "handler"
                     ELSE IF cfg.port > 0 /\ cfg.protocol = "http" THEN "proxy"
                     ELSE "none")
               /\ req'[r].call # "-" <=> req'[r].path = "proxy"
               /\ req'[r].status = 501 <=> req'[r].path = "none"
               /\ req'[r].st \in {"handler", "threw"} => req'[r].path = "handler"
               /\ req'[r].st = "proxy" => req'[r].path = "proxy" ]_vars

\* A handler and a local port are both configured: the request went to the
\* handler, was answered, and no proxy call was made.
C14_Witness ==
    /\ cfg.onRequest /\ cfg.port > 0 /\ cfg.protocol = "http"
    /\ \E r \in Reqs : req[r].path = "handler" /\ req[r].st = "sent"
                        /\ req[r].call = "-"

\* ---- C15 ------------------------------------------------------------------
\* C15: the first event of a proxy call decides the request's status (error:
\* 502; timeout: 504, and the call is aborted by that step; end: the upstream's
\* status), at most one response is sent for the request, and no later event
\* changes the status or sends again.
C15_FirstProxyEventDecides ==
    [][ \A r \in Reqs :
          req'[r].path = "proxy" =>
            /\ req'[r].resp <= 1
            /\ req'[r].first = "-" <=> req'[r].call = "inflight"
            /\ req'[r].first = "-" => req'[r].status = 0 /\ req'[r].resp = 0
            /\ req'[r].first = "error" => req'[r].status = 502
            /\ req'[r].first = "timeout" => req'[r].status = 504
            /\ req'[r].first = "end" => req'[r].status \in UpstreamCodes
            /\ (req[r].first = "-" /\ req'[r].first = "timeout") =>
                 req'[r].call = "aborted"
            /\ req[r].first # "-" =>
                 /\ req'[r].first = req[r].first
                 /\ req'[r].status = req[r].status
                 /\ req'[r].resp = req[r].resp
                 /\ \/ lastSent' = lastSent
                    \/ lastSent'.kind # "response"
                    \/ lastSent'.id # r ]_vars

\* The timeout fired, its 504 was sent, and the error that the abort causes
\* has fired after it.
C15_Witness ==
    \E r \in Reqs : /\ req[r].first = "timeout" /\ req[r].call = "over"
                    /\ req[r].status = 504 /\ req[r].resp = 1

\* ---- C16 ------------------------------------------------------------------
\* C16: no step replaces the socket of a registry entry whose socket is open;
\* every open local stream socket is the registry value of its id; and the
\* step of close() leaves no local stream socket open.
C16_RegistryExclusive ==
    [][ /\ \A c \in ConnIds :
             (tcpConnections[c] # 0 /\ sock[tcpConnections[c]].st = "open") =>
                tcpConnections'[c] \in {0, tcpConnections[c]}
        /\ \A s \in Socks :
             sock'[s].st = "open" => tcpConnections'[sock'[s].conn] = s
        /\ (~closed /\ closed') => \A s \in Socks : sock'[s].st # "open" ]_vars

\* ---- C17 ------------------------------------------------------------------
\* C17: the step in which a local stream socket ends by its close or error
\* event removes the entry of its id, sends nothing and touches no other
\* socket; the error event is reported once through the error callback, the
\* close event is not reported.  A tcp_data frame whose id has no entry writes
\* nothing, creates no socket, sends nothing, reports nothing and leaves the
\* registry as it is.
C17_RemovedThenNoOp ==
    [][ /\ \A s \in Socks :
             (sock[s].st = "open" /\ sock'[s].how \in {"close", "error"}) =>
               /\ sock'[s].st = "closed"
               /\ tcpConnections'[sock[s].conn] = 0
               /\ lastSent' = lastSent
               /\ sock'[s].reports =
                    sock[s].reports + (IF sock'[s].how = "error" THEN 1 ELSE 0)
               /\ \A t \in Socks \ {s} : sock'[t] = sock[t]
        /\ \A c \in ConnIds :
             ( /\ tcpConnections[c] = 0
               /\ \E i \in Channels, d \in Payloads : RecvTcpData(i, c, d) ) =>
               /\ \A s \in Socks : /\ sock'[s].written = sock[s].written
                                    /\ sock'[s].st = sock[s].st
                                    /\ sock'[s].reports = sock[s].reports
               /\ tcpConnections' = tcpConnections
               /\ lastSent' = lastSent ]_vars

\* A socket ended by an error that was reported once; its entry is gone, and a
\* tcp_data frame with its id came afterwards and was written nowhere.
C17_Witness ==
    \E s \in Socks :
        /\ sock[s].how = "error" /\ sock[s].reports = 1 /\ sock[s].missed = 1
        /\ tcpConnections[sock[s].conn] = 0
        /\ \A t \in Socks : sock[t].written = <<>>

\* ---- C18 ------------------------------------------------------------------
\* C18: socket.close() is called at most once on a datagram socket, a closed
\* socket was closed by exactly one call and has no timer left, and every
\* datagram socket that is open is closed later.
C18_UdpSocketClosedOnce ==
    /\ [](\A p \in Udps : /\ udp[p].closes <= 1
                           /\ udp[p].st = "closed" =>
                                udp[p].closes = 1 /\ ~udp[p].timer)
    /\ \A p \in Udps : (udp[p].st = "open") ~> (udp[p].st = "closed")

\* ---- C19 ------------------------------------------------------------------
RECURSIVE Pow2(_)
Pow2(k) == IF k = 0 THEN 1 ELSE 2 * Pow2(k - 1)

\* The attempts whose await has resumed in connect().
Handled(i) == i <= nch /\ (i < nch \/ supPc \in {"loop", "sleep", "done"})

\* The number of consecutive failed attempts that end with attempt i.
RECURSIVE Streak(_)
Streak(i) ==
    IF i = 0 \/ chan[i].promise # "rejected" THEN 0 ELSE 1 + Streak(i - 1)

C20_SentOnOriginChannel ==
    ( /\ lastSent.kind \in {"tcp_data", "udp_response", "response"}
      /\ lastSent.st = "open" ) => lastSent.ch = lastSent.origin

\* ---- C21 ------------------------------------------------------------------
\* C21: every tcp_data, udp_response or response frame is handed to a channel
\* that is open at that moment (not connecting, not closing, not closed).
C21_SendOnlyWhenOpen ==
    lastSent.kind \in {"tcp_data", "udp_response", "response"} =>
        lastSent.st = "open"

\* ---- C22 ------------------------------------------------------------------
\* C22: while the most recently created channel is connecting or open,
\* this.ws designates it.
C22_RefIsLatestChannel ==
    (nch > 0 /\ chan[nch].st \in {"connecting", "open"}) => ws = nch

====
